---- MODULE Spec2Model ----
(***************************************************************************)
(* Neural Content Director: the engagement tracker, the optimization       *)
(* policy and the request handlers that drive them.                        *)
(*                                                                         *)
(* Scores are integers in hundredths (0.7 is 70).  Timestamps are integer  *)
(* hours read from the clock `now`.                                        *)
(***************************************************************************)
EXTENDS Integers, Sequences, FiniteSets, TLC

\* ---------------------------------------------------------------- bounds
MaxRequests == 4        \* requests handled by the application handlers
MaxEvents == 2          \* engagement events handled by the application
MaxClock == 1           \* hours the clock may advance
NumCalls == 3           \* concurrent calculate_engagement calls
MaxTrackerCalls == 2    \* sequential calculate_engagement calls
MaxTrendCalls == 7      \* events of the session whose trend is read
MaxAnalyticsCalls == 6  \* events summarised by the global analytics

\* ------------------------------------------------------------ input sets
SessionIds == {"s1", "s2"}
ContentIds == {"content_001"}
Actions ==
    {"pause", "rewind", "skip", "fast_forward", "play", "volume_up",
     "fullscreen", "viewing"}
\* samples of np.random.normal(0, 0.05), in hundredths
NoiseSamples == {-40, -5, 0, 40}
VideoTimes == {-1, 3}
\* what the request handlers are driven with
RequestActions == {"skip", "rewind"}
RequestNoise == {-5, 5}
\* what the concurrent calls are driven with
CallActions == {"play"}
CallNoise == {0}
\* the predictor's outputs
PredictedScores == {40, 90}
RetentionWindows == {1}
Calls == 1 .. NumCalls
\* what the session whose trend is read is driven with
TrendSessions == {"s1"}
TrendActions == {"skip", "rewind"}
TrendNoise == {-10, 10}
\* what the history summarised by the global analytics is driven with
AnalyticsSessions == {"s1"}
AnalyticsActions == {"pause", "rewind", "skip", "play", "fullscreen", "viewing"}
AnalyticsNoise == {0}

VARIABLES
    now,                  \* datetime.now(), in hours
    tracking_history,     \* EngagementTracker.tracking_history
    session_data,         \* EngagementTracker.session_data
    list_id,              \* identity of the list object stored per session
    active_sessions,      \* app.active_sessions
    optimization_history, \* NeuralDirector.optimization_history
    is_trained,           \* NeuralDirector.is_trained
    request_no,           \* number of requests handled so far
    response,             \* the last request and what was answered
    calls                 \* the calculate_engagement calls in progress

vars ==
    <<now, tracking_history, session_data, list_id, active_sessions,
      optimization_history, is_trained, request_no, response, calls>>

Max(a, b) == IF a >= b THEN a ELSE b
Min(a, b) == IF a <= b THEN a ELSE b

\* ------------------------------------------------------ EngagementTracker
base_score == 70

AdjustedScore(action) ==
    CASE action = "pause" -> Max(30, base_score - 20)
      [] action = "rewind" -> Min(100, base_score + 10)
      [] action = "skip" -> Max(10, base_score - 40)
      [] action = "fast_forward" -> Max(20, base_score - 30)
      [] action = "play" -> Min(100, base_score + 10)
      [] action = "volume_up" -> Min(100, base_score + 5)
      [] action = "fullscreen" -> Min(100, base_score + 15)
      [] OTHER -> base_score

ClampScore_Missing(s) == s

\* score = max(0, min(1, score))
ClampScore(s) == Max(0, Min(100, s))

EngagementScore(action, noise) == ClampScore(AdjustedScore(action) + noise)

TrackingEntry(data, noise, ts) ==
    [timestamp |-> ts,
     session_id |-> data.session_id,
     action |-> data.action,
     engagement_score |-> EngagementScore(data.action, noise),
     video_time |-> data.video_time]

\* self.session_data[session_id] = []
WithNewLedger(sd, sid) ==
    [s \in DOMAIN sd \cup {sid} |-> IF s = sid THEN <<>> ELSE sd[s]]

WithEntry_AtFront(sd, sid, entry) == [sd EXCEPT ![sid] = <<entry>> \o @]

\* self.session_data[session_id].append(tracking_entry)
WithEntry(sd, sid, entry) == [sd EXCEPT ![sid] = Append(@, entry)]

LedgersAfter_CreateOnly(sd, entry) ==
    IF entry.session_id \notin DOMAIN sd THEN WithNewLedger(sd, entry.session_id) ELSE sd

LedgersAfter_AlwaysNew(sd, entry) ==
    WithEntry(WithNewLedger(sd, entry.session_id), entry.session_id, entry)

\* lines 54-56 run without interruption
LedgersAfter(sd, entry) ==
    LET sid == entry.session_id
        created == IF sid \notin DOMAIN sd THEN WithNewLedger(sd, sid) ELSE sd
    IN  WithEntry(created, sid, entry)

ListIdsAfter(ids, sd, sid) ==
    IF sid \notin DOMAIN sd THEN [ids EXCEPT ![sid] = @ + 1] ELSE ids

IdleCall == [pc |-> "idle"]

Init ==
    /\ now = 0
    /\ tracking_history = <<>>
    /\ session_data = [s \in {} |-> <<>>]
    /\ list_id = [s \in SessionIds |-> 0]
    /\ active_sessions = [s \in {} |-> <<>>]
    /\ optimization_history = <<>>
    /\ is_trained = TRUE
    /\ request_no = 0
    /\ response = [op |-> "none"]
    /\ calls = [c \in Calls |-> IdleCall]

\* the wall clock advances
Tick ==
    /\ now < MaxClock
    /\ now' = now + 1
    /\ UNCHANGED <<tracking_history, session_data, list_id, active_sessions,
                   optimization_history, is_trained, request_no, response, calls>>

\* -------------------------------------------------------- NeuralDirector
EmergencyActions ==
    <<[type |-> "emergency_intervention", action |-> "suggest_different_content",
       description |-> "Recommend completely different content",
       confidence |-> 95, priority |-> "high"],
      [type |-> "pacing_adjustment", action |-> "increase_pace",
       description |-> "Increase scene pacing by 25%",
       confidence |-> 85, priority |-> "high"]>>

ModerateActions ==
    <<[type |-> "scene_reorder", action |-> "prioritize_exciting_scenes",
       description |-> "Present more engaging scenes first",
       confidence |-> 72, priority |-> "medium"],
      [type |-> "content_highlight", action |-> "jump_to_action",
       description |-> "Skip to next high-action sequence",
       confidence |-> 78, priority |-> "medium"],
      [type |-> "audio_enhancement", action |-> "boost_dramatic_audio",
       description |-> "Boost dramatic music by 15%",
       confidence |-> 65, priority |-> "low"]>>

ExtensionActions ==
    <<[type |-> "engagement_extension", action |-> "show_bonus_content",
       description |-> "Offer behind-the-scenes content",
       confidence |-> 90, priority |-> "low"]>>

\* _generate_optimizations(engagement, viewing_pattern)
GenerateOptimizations(engagement) ==
    IF engagement < 30 THEN EmergencyActions
    ELSE IF engagement < 60 THEN ModerateActions
    ELSE IF engagement > 80 THEN ExtensionActions
    ELSE <<>>

NeedsFullOptimization_AndGate(needs_opt, current_engagement) ==
    needs_opt /\ current_engagement < 60

\* if needs_opt or current_engagement < 0.6
NeedsFullOptimization(needs_opt, current_engagement) ==
    needs_opt \/ current_engagement < 60

\* the list returned under 'optimizations'
Optimizations(needs_opt, current_engagement) ==
    IF NeedsFullOptimization(needs_opt, current_engagement)
    THEN GenerateOptimizations(current_engagement)
    ELSE <<>>

\* the record appended to optimization_history
OptimizationRecord(content_id, current_engagement, predicted, optimizations, ts) ==
    [timestamp |-> ts,
     content_id |-> content_id,
     before_engagement |-> current_engagement,
     predicted_improvement |-> predicted - current_engagement,
     optimizations_applied |-> Len(optimizations)]

OptimizationHistoryAfter(log, content_id, current_engagement, needs_opt, predicted, ts) ==
    IF NeedsFullOptimization(needs_opt, current_engagement)
    THEN Append(log,
                OptimizationRecord(content_id, current_engagement, predicted,
                                   Optimizations(needs_opt, current_engagement), ts))
    ELSE log

\* get_realtime_recommendations(session_id, engagement_score)
RealtimeRecommendations(engagement_score) ==
    IF engagement_score < 40
    THEN <<[action |-> "suggest_skip", confidence |-> 80, urgency |-> "high"],
           [action |-> "recommend_similar", confidence |-> 70, urgency |-> "high"]>>
    ELSE IF engagement_score < 60
    THEN <<[action |-> "pace_adjustment", confidence |-> 75, urgency |-> "medium"]>>
    ELSE IF engagement_score > 80
    THEN <<[action |-> "extend_content", confidence |-> 90, urgency |-> "low"]>>
    ELSE <<>>

\* ------------------------------------------------------------------- app
NewSession(ts) ==
    [start_time |-> ts,
     engagement_score |-> 80,
     viewing_pattern |-> <<>>,
     content_modifications |-> <<>>,
     total_optimizations |-> 0]

PatternEntry_BaseScore(data, score, ts) ==
    [timestamp |-> ts,
     engagement |-> base_score,
     user_action |-> data.action,
     video_time |-> data.video_time]

\* the dict appended to viewing_pattern
PatternEntry(data, score, ts) ==
    [timestamp |-> ts,
     engagement |-> score,
     user_action |-> data.action,
     video_time |-> data.video_time]

\* GET /viewer
Viewer(sid) ==
    /\ request_no < MaxRequests
    /\ sid \notin DOMAIN active_sessions
    /\ active_sessions' =
           [s \in DOMAIN active_sessions \cup {sid} |->
               IF s = sid THEN NewSession(now) ELSE active_sessions[s]]
    /\ request_no' = request_no + 1
    /\ response' = [op |-> "viewer", session_id |-> sid]
    /\ UNCHANGED <<now, tracking_history, session_data, list_id,
                   optimization_history, is_trained, calls>>

\* socket event 'engagement_data'
HandleEngagementData(data, noise) ==
    /\ request_no < MaxRequests
    /\ Len(tracking_history) < MaxEvents
    /\ request_no' = request_no + 1
    /\ IF data.session_id \in DOMAIN active_sessions
       THEN LET entry == TrackingEntry(data, noise, now)
                score == entry.engagement_score
                pattern == Append(active_sessions[data.session_id].viewing_pattern,
                                  PatternEntry(data, score, now))
            IN  /\ tracking_history' = Append(tracking_history, entry)
                /\ session_data' = LedgersAfter(session_data, entry)
                /\ list_id' = ListIdsAfter(list_id, session_data, data.session_id)
                /\ active_sessions' =
                       [active_sessions EXCEPT
                           ![data.session_id].engagement_score = score,
                           ![data.session_id].viewing_pattern = pattern]
                /\ response' =
                       [op |-> "engagement_data",
                        data |-> data,
                        emitted |-> "content_optimization",
                        engagement_score |-> score,
                        recommendations |-> RealtimeRecommendations(score),
                        total_interactions |-> Len(pattern)]
       ELSE /\ response' =
                   [op |-> "engagement_data", data |-> data, emitted |-> "nothing"]
            /\ UNCHANGED <<tracking_history, session_data, list_id, active_sessions>>
    /\ UNCHANGED <<now, optimization_history, is_trained, calls>>

\* GET /api/content/<content_id>, with the predictor's two outputs
GetContent(sid, content_id, needs_opt, predicted) ==
    /\ request_no < MaxRequests
    /\ request_no' = request_no + 1
    /\ IF sid \notin DOMAIN active_sessions
       THEN /\ response' =
                   [op |-> "get_content", session_id |-> sid, status |-> "invalid_session"]
            /\ UNCHANGED optimization_history
       ELSE IF ~is_trained
       THEN /\ response' =
                   [op |-> "get_content", session_id |-> sid, status |-> "not_trained"]
            /\ UNCHANGED optimization_history
       ELSE LET current == active_sessions[sid].engagement_score
            IN  /\ optimization_history' =
                       OptimizationHistoryAfter(optimization_history, content_id,
                                                current, needs_opt, predicted, now)
                /\ response' =
                       [op |-> "get_content",
                        session_id |-> sid,
                        status |-> "ok",
                        content_id |-> content_id,
                        current_engagement |-> current,
                        predicted_engagement |-> predicted,
                        needs_optimization |-> needs_opt,
                        optimizations |-> Optimizations(needs_opt, current),
                        confidence_score |-> Max(0, Min(100, predicted))]
    /\ UNCHANGED <<now, tracking_history, session_data, list_id, active_sessions,
                   is_trained, calls>>

\* GET /api/content/<content_id> when scaler.transform or predict raises:
\* nothing catches the exception, the request fails
GetContentPredictorRaises(sid, content_id) ==
    /\ request_no < MaxRequests
    /\ sid \in DOMAIN active_sessions
    /\ is_trained
    /\ request_no' = request_no + 1
    /\ response' =
           [op |-> "get_content",
            session_id |-> sid,
            status |-> "exception",
            content_id |-> content_id,
            current_engagement |-> active_sessions[sid].engagement_score]
    /\ UNCHANGED <<now, tracking_history, session_data, list_id, active_sessions,
                   optimization_history, is_trained, calls>>

OptimizationsApplied_FromLog(session) == Len(optimization_history)

\* len(session_data['content_modifications'])
OptimizationsApplied(session) == Len(session.content_modifications)

\* GET /api/session/<session_id>/stats
GetSessionStats(sid) ==
    /\ request_no < MaxRequests
    /\ request_no' = request_no + 1
    /\ response' =
           IF sid \notin DOMAIN active_sessions
           THEN [op |-> "session_stats", session_id |-> sid, status |-> 404]
           ELSE [op |-> "session_stats",
                 session_id |-> sid,
                 status |-> 200,
                 duration_seconds |-> now - active_sessions[sid].start_time,
                 engagement_score |-> active_sessions[sid].engagement_score,
                 total_interactions |-> Len(active_sessions[sid].viewing_pattern),
                 optimizations_applied |->
                     OptimizationsApplied(active_sessions[sid])]
    /\ UNCHANGED <<now, tracking_history, session_data, list_id, active_sessions,
                   optimization_history, is_trained, calls>>

\* engagement_tracker.clear_old_data(hours_to_keep): its first statement reads
\* the name timedelta, which the module never imports, so the call raises
\* NameError before anything is filtered
ClearOldData(hours_to_keep) ==
    /\ request_no < MaxRequests
    /\ request_no' = request_no + 1
    /\ response' =
           [op |-> "clear_old_data",
            hours_to_keep |-> hours_to_keep,
            called_at |-> now,
            raised |-> "NameError"]
    /\ UNCHANGED <<now, tracking_history, session_data, list_id, active_sessions,
                   optimization_history, is_trained, calls>>

EventData == [session_id : SessionIds, action : RequestActions, video_time : VideoTimes]

Next ==
    \/ Tick
    \/ \E sid \in SessionIds : Viewer(sid)
    \/ \E data \in EventData, noise \in RequestNoise : HandleEngagementData(data, noise)
    \/ \E sid \in SessionIds, c \in ContentIds, needs_opt \in BOOLEAN,
          predicted \in PredictedScores : GetContent(sid, c, needs_opt, predicted)
    \/ \E sid \in SessionIds : GetSessionStats(sid)
    \/ \E h \in RetentionWindows : ClearOldData(h)

Spec == Init /\ [][Next]_vars

\* the application with a predictor that may raise
NextPredictorFault ==
    \/ Next
    \/ \E sid \in SessionIds, c \in ContentIds : GetContentPredictorRaises(sid, c)

SpecPredictorFault == Init /\ [][NextPredictorFault]_vars

\* ------------------------------------- sequential calculate_engagement calls
TrackerData == [session_id : SessionIds, action : Actions, video_time : {3}]

\* engagement_tracker.calculate_engagement(data), run to completion
RunCalculateEngagement(data, noise) ==
    /\ LET entry == TrackingEntry(data, noise, now)
       IN  /\ tracking_history' = Append(tracking_history, entry)
           /\ session_data' = LedgersAfter(session_data, entry)
           /\ list_id' = ListIdsAfter(list_id, session_data, data.session_id)
           /\ response' =
                  [op |-> "calculate_engagement",
                   data |-> data,
                   returned |-> entry.engagement_score]
    /\ UNCHANGED <<now, active_sessions, optimization_history, is_trained,
                   request_no, calls>>

CalculateEngagement(data, noise) ==
    /\ Len(tracking_history) < MaxTrackerCalls
    /\ RunCalculateEngagement(data, noise)

NextTracker ==
    \E data \in TrackerData, noise \in NoiseSamples : CalculateEngagement(data, noise)

SpecTracker == Init /\ [][NextTracker]_vars

\* ------------------------------------------------------ get_engagement_trend
RECURSIVE SumOf(_)
SumOf(seq) == IF Len(seq) = 0 THEN 0 ELSE seq[1] + SumOf(Tail(seq))

\* [entry['engagement_score'] for entry in self.session_data[session_id]]
Scores(entries) == [i \in 1 .. Len(entries) |-> entries[i].engagement_score]

MeanOf_EmptyIsZero(seq) ==
    [sum |-> SumOf(seq), count |-> IF Len(seq) = 0 THEN 1 ELSE Len(seq)]

\* np.mean kept as sum and count; the mean of no scores (count 0) is nan
MeanOf(seq) == [sum |-> SumOf(seq), count |-> Len(seq)]

IsNaN(m) == m.count = 0

\* (a - b) > t and (a - b) < t, t in hundredths; a comparison with nan is False
DiffAbove(a, b, t) ==
    /\ ~IsNaN(a)
    /\ ~IsNaN(b)
    /\ a.sum * b.count - b.sum * a.count > t * a.count * b.count

DiffBelow(a, b, t) ==
    /\ ~IsNaN(a)
    /\ ~IsNaN(b)
    /\ a.sum * b.count - b.sum * a.count < t * a.count * b.count

\* session_scores[-3:]
RecentScores(scores) == SubSeq(scores, Len(scores) - 2, Len(scores))

EarlierScores_AllBefore(scores) == SubSeq(scores, 1, Len(scores) - 3)

\* session_scores[-6:-3] if len(session_scores) >= 6 else session_scores[:-3]
EarlierScores(scores) ==
    IF Len(scores) >= 6
    THEN SubSeq(scores, Len(scores) - 5, Len(scores) - 3)
    ELSE SubSeq(scores, 1, Len(scores) - 3)

TrendOfScores(scores) ==
    IF Len(scores) < 3 THEN "stable"
    ELSE LET recent_avg == MeanOf(RecentScores(scores))
             earlier_avg == MeanOf(EarlierScores(scores))
         IN  IF DiffAbove(recent_avg, earlier_avg, 10) THEN "increasing"
             ELSE IF DiffBelow(recent_avg, earlier_avg, -10) THEN "decreasing"
             ELSE "stable"

\* engagement_tracker.get_engagement_trend(session_id)
EngagementTrend(sid) ==
    IF sid \notin DOMAIN session_data THEN "stable"
    ELSE TrendOfScores(Scores(session_data[sid]))

TrendData == [session_id : TrendSessions, action : TrendActions, video_time : {3}]

SubmitTrendEvent(data, noise) ==
    /\ Len(tracking_history) < MaxTrendCalls
    /\ RunCalculateEngagement(data, noise)

GetEngagementTrend(sid) ==
    /\ response' =
           [op |-> "get_engagement_trend",
            session_id |-> sid,
            trend |-> EngagementTrend(sid)]
    /\ UNCHANGED <<now, tracking_history, session_data, list_id, active_sessions,
                   optimization_history, is_trained, request_no, calls>>

NextTrend ==
    \/ \E data \in TrendData, noise \in TrendNoise : SubmitTrendEvent(data, noise)
    \/ \E sid \in SessionIds : GetEngagementTrend(sid)

SpecTrend == Init /\ [][NextTrend]_vars

\* ------------------------------------------------------ get_global_analytics
top_n == 5

\* [entry['action'] for entry in self.tracking_history]
ActionsOf(entries) == [i \in 1 .. Len(entries) |-> entries[i].action]

Range(seq) == {seq[i] : i \in 1 .. Len(seq)}

CountOf(actions, a) == Cardinality({i \in 1 .. Len(actions) : actions[i] = a})

\* the keys of action_counts, in the order the loop inserted them
RECURSIVE CountedActions(_)
CountedActions(actions) ==
    IF Len(actions) = 0 THEN <<>>
    ELSE LET before == CountedActions(SubSeq(actions, 1, Len(actions) - 1))
             a == actions[Len(actions)]
         IN  IF a \in Range(before) THEN before ELSE Append(before, a)

\* action_counts.items()
ActionCounts(actions) ==
    LET keys == CountedActions(actions)
    IN  [i \in 1 .. Len(keys) |-> <<keys[i], CountOf(actions, keys[i])>>]

InsertByCount_BeforeEqual(sorted, item) ==
    LET p == Cardinality({i \in 1 .. Len(sorted) : sorted[i][2] > item[2]})
    IN  SubSeq(sorted, 1, p) \o <<item>> \o SubSeq(sorted, p + 1, Len(sorted))

\* where the stable descending sort puts an item that came after the
\* items already sorted: behind every item whose count is not smaller
InsertByCount(sorted, item) ==
    LET p == Cardinality({i \in 1 .. Len(sorted) : sorted[i][2] >= item[2]})
    IN  SubSeq(sorted, 1, p) \o <<item>> \o SubSeq(sorted, p + 1, Len(sorted))

\* sorted(action_counts.items(), key=lambda x: x[1], reverse=True)
RECURSIVE SortedByCount(_)
SortedByCount(items) ==
    IF Len(items) = 0 THEN <<>>
    ELSE InsertByCount(SortedByCount(SubSeq(items, 1, Len(items) - 1)),
                       items[Len(items)])

\* _get_top_actions(actions, top_n=5)
TopActions(actions) ==
    LET sorted_actions == SortedByCount(ActionCounts(actions))
    IN  SubSeq(sorted_actions, 1, Min(top_n, Len(sorted_actions)))

\* _analyze_global_trends()
GlobalTrends ==
    LET found == {EngagementTrend(sid) : sid \in DOMAIN session_data}
    IN  [t \in found |->
            Cardinality({sid \in DOMAIN session_data : EngagementTrend(sid) = t})]

\* engagement_tracker.get_global_analytics()
GlobalAnalytics ==
    IF Len(tracking_history) = 0
    THEN [op |-> "get_global_analytics", error |-> "No tracking data available"]
    ELSE LET all_scores == Scores(tracking_history)
             all_actions == ActionsOf(tracking_history)
             n == Len(all_scores)
         IN  [op |-> "get_global_analytics",
              total_interactions |-> Len(tracking_history),
              unique_sessions |-> Cardinality(DOMAIN session_data),
              avg_engagement_global |-> MeanOf(all_scores),
              engagement_distribution |->
                  [high |-> Cardinality({i \in 1 .. n : all_scores[i] > 70}),
                   medium |-> Cardinality({i \in 1 .. n :
                                  40 <= all_scores[i] /\ all_scores[i] <= 70}),
                   low |-> Cardinality({i \in 1 .. n : all_scores[i] < 40})],
              most_common_actions |-> TopActions(all_actions),
              engagement_trends |-> GlobalTrends]

AnalyticsData ==
    [session_id : AnalyticsSessions, action : AnalyticsActions, video_time : {3}]

SubmitAnalyticsEvent(data, noise) ==
    /\ Len(tracking_history) < MaxAnalyticsCalls
    /\ RunCalculateEngagement(data, noise)

GetGlobalAnalytics ==
    /\ response' = GlobalAnalytics
    /\ UNCHANGED <<now, tracking_history, session_data, list_id, active_sessions,
                   optimization_history, is_trained, request_no, calls>>

NextAnalytics ==
    \/ \E data \in AnalyticsData, noise \in AnalyticsNoise :
          SubmitAnalyticsEvent(data, noise)
    \/ GetGlobalAnalytics

SpecAnalytics == Init /\ [][NextAnalytics]_vars

\* ------------------------------------- concurrent calculate_engagement calls
\* Each call runs lines 10-58 one statement at a time; another call's
\* statement may run between any two of them.
CallData == [session_id : SessionIds, action : CallActions, video_time : {3}]

\* lines 14-49: the score and the entry, both local to the call
CallBegin(c, data, noise) ==
    /\ calls[c].pc = "idle"
    /\ calls' = [calls EXCEPT ![c] =
                    [pc |-> "L51", entry |-> TrackingEntry(data, noise, now)]]
    /\ UNCHANGED <<now, tracking_history, session_data, list_id, active_sessions,
                   optimization_history, is_trained, request_no, response>>

\* line 51: self.tracking_history.append(tracking_entry)
CallAppendHistory(c) ==
    /\ calls[c].pc = "L51"
    /\ tracking_history' = Append(tracking_history, calls[c].entry)
    /\ calls' = [calls EXCEPT ![c].pc = "L54"]
    /\ UNCHANGED <<now, session_data, list_id, active_sessions,
                   optimization_history, is_trained, request_no, response>>

\* line 54: if session_id not in self.session_data
CallCheckSession(c) ==
    /\ calls[c].pc = "L54"
    /\ calls' = [calls EXCEPT ![c].pc =
                    IF calls[c].entry.session_id \notin DOMAIN session_data
                    THEN "L55" ELSE "L56"]
    /\ UNCHANGED <<now, tracking_history, session_data, list_id, active_sessions,
                   optimization_history, is_trained, request_no, response>>

\* line 55: self.session_data[session_id] = [], a new list object that
\* replaces whatever list the dictionary held
CallCreateLedger(c) ==
    /\ calls[c].pc = "L55"
    /\ session_data' = WithNewLedger(session_data, calls[c].entry.session_id)
    /\ list_id' = [list_id EXCEPT ![calls[c].entry.session_id] = @ + 1]
    /\ calls' = [calls EXCEPT ![c].pc = "L56"]
    /\ UNCHANGED <<now, tracking_history, active_sessions,
                   optimization_history, is_trained, request_no, response>>

\* line 56, first half: self.session_data[session_id] yields the list object
CallLoadLedger(c) ==
    /\ calls[c].pc = "L56"
    /\ calls' = [calls EXCEPT ![c] =
                    [pc |-> "L56_append",
                     entry |-> calls[c].entry,
                     list |-> list_id[calls[c].entry.session_id]]]
    /\ UNCHANGED <<now, tracking_history, session_data, list_id, active_sessions,
                   optimization_history, is_trained, request_no, response>>

\* line 56, second half: .append(tracking_entry) on the list object loaded;
\* when the dictionary holds another list by now, the entry goes to a list
\* nothing refers to any more
CallAppendLedger(c) ==
    /\ calls[c].pc = "L56_append"
    /\ session_data' =
           IF list_id[calls[c].entry.session_id] = calls[c].list
           THEN WithEntry(session_data, calls[c].entry.session_id, calls[c].entry)
           ELSE session_data
    /\ calls' = [calls EXCEPT ![c] = [pc |-> "done", entry |-> calls[c].entry]]
    /\ UNCHANGED <<now, tracking_history, list_id, active_sessions,
                   optimization_history, is_trained, request_no, response>>

NextConcurrent ==
    \/ \E c \in Calls, data \in CallData, noise \in CallNoise : CallBegin(c, data, noise)
    \/ \E c \in Calls : CallAppendHistory(c)
    \/ \E c \in Calls : CallCheckSession(c)
    \/ \E c \in Calls : CallCreateLedger(c)
    \/ \E c \in Calls : CallLoadLedger(c)
    \/ \E c \in Calls : CallAppendLedger(c)

SpecConcurrent == Init /\ [][NextConcurrent]_vars

\* ----------------------------------------------------------------- claims
LedgerOf(sid) == IF sid \in DOMAIN session_data THEN session_data[sid] ELSE <<>>

RECURSIVE TotalLedgerEntries(_)
TotalLedgerEntries(S) ==
    IF S = {} THEN 0
    ELSE LET s == CHOOSE x \in S : TRUE
         IN  Len(LedgerOf(s)) + TotalLedgerEntries(S \ {s})

StoredEntries ==
    {tracking_history[i] : i \in 1 .. Len(tracking_history)}
        \cup UNION {{session_data[s][i] : i \in 1 .. Len(session_data[s])} :
                       s \in DOMAIN session_data}

OptimizeAnswered == response.op = "get_content" /\ response.status = "ok"

\* C1: an optimization request with current score 0.25 returns exactly the
\* two emergency actions, with 0.75 an empty list, with 0.85 exactly the
\* engagement_extension action, whatever the needs-optimization flag is.
C1_DecisionByScoreAlone ==
    OptimizeAnswered =>
        /\ response.current_engagement = 25 => response.optimizations = EmergencyActions
        /\ response.current_engagement = 75 => response.optimizations = <<>>
        /\ response.current_engagement = 85 => response.optimizations = ExtensionActions

\* C2: a step that is an optimize_content call with the flag true or the
\* current score below 0.6 appends exactly one entry to the optimization log,
\* recording the length of the action list returned; every other step leaves
\* the log as it was.
C2_LogGrowsOnTriggeringCallsOnly ==
    [][IF /\ request_no' = request_no + 1
          /\ response'.op = "get_content"
          /\ response'.status = "ok"
          /\ (response'.needs_optimization \/ response'.current_engagement < 60)
       THEN /\ Len(optimization_history') = Len(optimization_history) + 1
            /\ SubSeq(optimization_history', 1, Len(optimization_history))
                   = optimization_history
            /\ optimization_history'[Len(optimization_history')].optimizations_applied
                   = Len(response'.optimizations)
       ELSE optimization_history' = optimization_history]_vars

\* C2 witness: a triggering call has just been answered with the two
\* emergency actions, and the entry it appended records two actions.
C2_Witness ==
    /\ OptimizeAnswered
    /\ Len(response.optimizations) = 2
    /\ Len(optimization_history) >= 1
    /\ optimization_history[Len(optimization_history)].optimizations_applied = 2

\* C3: an optimization request for a known session never fails because of
\* the predictor: it is answered with the action list of the score bands.
C3_PredictorFaultFallsBackToBands ==
    (response.op = "get_content" /\ response.status # "invalid_session") =>
        /\ response.status = "ok"
        /\ response.optimizations = GenerateOptimizations(response.current_engagement)

AllCallsDone == \A c \in Calls : calls[c].pc = "done"

DoneCallsFor(sid) ==
    {c \in Calls : calls[c].pc = "done" /\ calls[c].entry.session_id = sid}

\* C4: once all the concurrent calls, spread over two or more session ids,
\* have returned, every ledger holds only entries of its own session id and
\* the ledgers together hold as many entries as there were calls.
C4_NoEventLostAcrossSessions ==
    (/\ AllCallsDone
     /\ Cardinality({calls[c].entry.session_id : c \in Calls}) >= 2) =>
        /\ \A s \in DOMAIN session_data : \A i \in 1 .. Len(session_data[s]) :
               session_data[s][i].session_id = s
        /\ TotalLedgerEntries(SessionIds) = NumCalls

\* C5: a session's ledger always holds an entry for every call for that
\* session whose append has completed.
C5_SameSessionAppendsSerialized ==
    \A sid \in SessionIds : Len(LedgerOf(sid)) >= Cardinality(DoneCallsFor(sid))

\* C6: once the retention sweep has run, no entry older than its cutoff is
\* left in the tracking history or in any ledger, and no ledger is empty.
C6_SweepRemovesOldEntries ==
    response.op = "clear_old_data" =>
        /\ \A e \in StoredEntries :
               e.timestamp > response.called_at - response.hours_to_keep
        /\ \A s \in DOMAIN session_data : session_data[s] # <<>>

\* C7: the session statistics lookup that follows a retention sweep, for a
\* session all of whose entries were older than the window, answers 404.
C7_SweptSessionNotFound ==
    [][(/\ response.op = "clear_old_data"
        /\ request_no' = request_no + 1
        /\ response'.op = "session_stats"
        /\ response'.session_id \in DOMAIN session_data
        /\ \A i \in 1 .. Len(session_data[response'.session_id]) :
               session_data[response'.session_id][i].timestamp
                   <= response.called_at - response.hours_to_keep)
       => response'.status = 404]_vars

\* C8: every event handed to the engagement event handler is scored and
\* appended, or answered with a failure result.
C8_EveryEventAnswered ==
    response.op = "engagement_data" =>
        response.emitted \in {"content_optimization", "error"}

\* C9: an event with a negative video time, sent for a known session, is
\* answered with InvalidEvent, and no such event is ever stored in the
\* tracking history or in a ledger.
C9_MalformedEventRejected ==
    /\ \A e \in StoredEntries : e.video_time >= 0
    /\ (/\ response.op = "engagement_data"
        /\ response.data.video_time < 0
        /\ response.data.session_id \in DOMAIN active_sessions) =>
           response.emitted = "InvalidEvent"

\* C10: every stored entry has an engagement score within [0, 1].
C10_ScoresWithinUnitInterval ==
    \A e \in StoredEntries : 0 <= e.engagement_score /\ e.engagement_score <= 100

\* C10 witness: noise carried one entry below 0 and another above 1, and
\* both were stored clamped.
C10_Witness ==
    /\ \E e \in StoredEntries : e.action = "skip" /\ e.engagement_score = 0
    /\ \E e \in StoredEntries : e.action = "fullscreen" /\ e.engagement_score = 100

Last(seq) == seq[Len(seq)]

IsPrefix(a, b) == Len(a) <= Len(b) /\ SubSeq(b, 1, Len(a)) = a

C12_LedgerGrowsAtTheEndOnly ==
    [][/\ \A s \in DOMAIN session_data :
              /\ s \in DOMAIN session_data'
              /\ IsPrefix(session_data[s], session_data'[s])
              /\ Len(session_data'[s]) <= Len(session_data[s]) + 1
       /\ \A s \in DOMAIN session_data' :
              Len(session_data'[s]) > Len(LedgerOf(s)) =>
                  /\ s = response'.data.session_id
                  /\ Last(session_data'[s]) =
                         [timestamp |-> now,
                          session_id |-> s,
                          action |-> response'.data.action,
                          engagement_score |-> response'.returned,
                          video_time |-> response'.data.video_time]
       /\ \A s \in DOMAIN session_data' \ DOMAIN session_data :
              Len(session_data'[s]) = 1]_vars

\* C12 witness: a ledger holds two different entries, the later one last.
C12_Witness ==
    \E s \in DOMAIN session_data :
        /\ Len(session_data[s]) = 2
        /\ session_data[s][1] # session_data[s][2]
        /\ session_data[s][2] = Last(tracking_history)

TrendAnswered == response.op = "get_engagement_trend"

\* C13: get_engagement_trend answers stable for fewer than 3 scores;
\* otherwise it compares the mean of the last 3 scores with the mean of the
\* 3 scores before them (of all scores before them when fewer than 6 exist)
\* and answers increasing iff the difference is above 0.1, decreasing iff it
\* is below -0.1, and stable otherwise.
C13_TrendByWindowMeans ==
    TrendAnswered =>
        LET l == LedgerOf(response.session_id)
            n == Len(l)
            sc(i) == IF i >= 1 /\ i <= n THEN l[i].engagement_score ELSE 0
            recent3 == sc(n) + sc(n - 1) + sc(n - 2)
            k == IF n >= 6 THEN 3 ELSE n - 3
            earlierK == IF n >= 6 THEN sc(n - 3) + sc(n - 4) + sc(n - 5)
                        ELSE IF n = 5 THEN sc(1) + sc(2)
                        ELSE sc(1)
            up == k > 0 /\ recent3 * k - earlierK * 3 > 10 * 3 * k
            down == k > 0 /\ recent3 * k - earlierK * 3 < (-10) * 3 * k
        IN  IF n < 3 THEN response.trend = "stable"
            ELSE /\ response.trend = "increasing" <=> up
                 /\ response.trend = "decreasing" <=> down
                 /\ response.trend = "stable" <=> (~up /\ ~down)

\* C13 witness: the scores 0.2, 0.2, 0.2, 0.9, 0.9, 0.9 were answered with
\* increasing.
C13_Witness ==
    /\ TrendAnswered
    /\ response.trend = "increasing"
    /\ Scores(LedgerOf(response.session_id)) = <<20, 20, 20, 90, 90, 90>>

\* C17: for a session with exactly 3 scores get_engagement_trend answers
\* stable.
C17_ThreeScoresAreStable ==
    (TrendAnswered /\ Len(LedgerOf(response.session_id)) = 3) =>
        response.trend = "stable"

\* C17 witness: three scores of 0.9, with nothing before them, were answered
\* with stable.
C17_Witness ==
    /\ TrendAnswered
    /\ response.trend = "stable"
    /\ Scores(LedgerOf(response.session_id)) = <<90, 90, 90>>

AnalyticsAnswered ==
    response.op = "get_global_analytics" /\ Len(tracking_history) > 0

HistoryLabels == {tracking_history[i].action : i \in 1 .. Len(tracking_history)}

\* C14: the top actions of the global summary are at most 5 labels, each
\* with its number of occurrences in the tracking history, ordered by that
\* number descending and, among equal numbers, by first appearance in the
\* history; every label left out ranks behind every label listed.
C14_TopActionsRanked ==
    AnalyticsAnswered =>
        LET r == response.most_common_actions
            occurrences(a) ==
                {i \in 1 .. Len(tracking_history) : tracking_history[i].action = a}
            cnt(a) == Cardinality(occurrences(a))
            first(a) == CHOOSE i \in occurrences(a) : \A j \in occurrences(a) : i <= j
            ahead(a, b) == cnt(a) > cnt(b) \/ (cnt(a) = cnt(b) /\ first(a) < first(b))
            listed == {r[i][1] : i \in 1 .. Len(r)}
        IN  /\ Len(r) <= 5
            /\ Len(r) = Min(5, Cardinality(HistoryLabels))
            /\ listed \subseteq HistoryLabels
            /\ \A i \in 1 .. Len(r) : r[i][2] = cnt(r[i][1])
            /\ \A i \in 1 .. Len(r) : \A j \in 1 .. Len(r) :
                   i < j => ahead(r[i][1], r[j][1])
            /\ \A a \in HistoryLabels \ listed : \A b \in listed : ahead(b, a)

\* C14 witness: the history holds six different labels, once each; the
\* summary lists the five seen first, in that order, and leaves out the sixth.
C14_Witness ==
    /\ AnalyticsAnswered
    /\ Len(tracking_history) = 6
    /\ Cardinality(HistoryLabels) = 6
    /\ Len(response.most_common_actions) = 5
    /\ \A i \in 1 .. 5 :
           response.most_common_actions[i] = <<tracking_history[i].action, 1>>

\* the tracking-history entries carrying session id sid, in history order
HistoryOf(sid) ==
    LET carries(e) == e.session_id = sid
    IN  SelectSeq(tracking_history, carries)

C16_SessionRecordsAgree ==
    \A s \in DOMAIN active_sessions :
        LET pattern == active_sessions[s].viewing_pattern
            ledger == LedgerOf(s)
        IN  /\ Len(pattern) = Len(ledger)
            /\ \A i \in 1 .. Len(pattern) :
                   pattern[i].engagement = ledger[i].engagement_score
            /\ active_sessions[s].engagement_score =
                   IF Len(ledger) = 0 THEN 80 ELSE Last(ledger).engagement_score

\* C16 witness: a session next to a still untouched one has had two events
\* handled with different scores; both records hold the two scores in order
\* and the current score is the later one.
C16_Witness ==
    \E s \in DOMAIN active_sessions : \E t \in DOMAIN active_sessions :
        /\ Len(active_sessions[s].viewing_pattern) = 2
        /\ Len(LedgerOf(s)) = 2
        /\ LedgerOf(s)[1].engagement_score # LedgerOf(s)[2].engagement_score
        /\ active_sessions[s].engagement_score = LedgerOf(s)[2].engagement_score
        /\ active_sessions[s].viewing_pattern[2].engagement =
               LedgerOf(s)[2].engagement_score
        /\ t # s
        /\ active_sessions[t].engagement_score = 80
        /\ t \notin DOMAIN session_data

\* C18: every session's content_modifications is empty and its
\* total_optimizations is 0 in every state, and every answered stats request
\* reports optimizations_applied = 0, whatever the optimization log holds.
C18_NoOptimizationRecordedPerSession ==
    /\ \A s \in DOMAIN active_sessions :
           /\ active_sessions[s].content_modifications = <<>>
           /\ active_sessions[s].total_optimizations = 0
    /\ (response.op = "session_stats" /\ response.status = 200) =>
           response.optimizations_applied = 0

\* C18 witness: the only session there is had a content request answered
\* with actions, the log holds its record with a positive count, and the
\* session's stats then report 0 optimizations applied.
C18_Witness ==
    /\ response.op = "session_stats"
    /\ response.status = 200
    /\ DOMAIN active_sessions = {response.session_id}
    /\ Len(optimization_history) > 0
    /\ \A i \in 1 .. Len(optimization_history) :
           optimization_history[i].optimizations_applied > 0
    /\ response.optimizations_applied = 0

====
